---- MODULE Spec2Model ----
(***************************************************************************)
(* Model of file_browser.py: the FileBrowser application (a directory      *)
(* tree, a sortable DataTable of the selected directory's children, a log) *)
(* and the two size-string functions it uses.                              *)
(*                                                                         *)
(* Strings are sequences of code points, so that str comparison is the     *)
(* lexicographic comparison Python applies, and so that formatting and     *)
(* parsing really build and take apart the text.                           *)
(***************************************************************************)
EXTENDS Integers, Sequences, FiniteSets, TLC

(***************************************************************************)
(* Bounds of the model.                                                    *)
(***************************************************************************)
\* the longest directory listing a scan returns
MaxEntries == 2
\* the number of times watch_path may run its try block
MaxScans == 3
\* the largest magnitude of the integers formatted one by one
MaxSmall == 999
\* the largest power of 1000 the integers formatted are built around
MaxPow == 5

(***************************************************************************)
(* Text.                                                                   *)
(***************************************************************************)
SP == 32
MINUS == 45
DOT == 46
ZERO == 48
CH_B == 66

\* "BkMGTPE" (parse_human_readable_byte_count_si, line 132)
parse_prefixes == <<66, 107, 77, 71, 84, 80, 69>>
\* "kMGTPE" (human_readable_byte_count_si, line 123)
prefixes == <<107, 77, 71, 84, 80, 69>>

Abs(n) == IF n < 0 THEN -n ELSE n

RECURSIVE Pow1000(_)
Pow1000(i) == IF i = 0 THEN 1 ELSE 1000 * Pow1000(i - 1)

\* the decimal digits of a natural number, as str() and "%f" write them
RECURSIVE Digits(_)
Digits(n) == IF n < 10 THEN <<ZERO + n>> ELSE Append(Digits(n \div 10), ZERO + (n % 10))

\* str(n) of a Python int
Str(n) == IF n < 0 THEN <<MINUS>> \o Digits(-n) ELSE Digits(n)

\* Python's ordering of two str values: by code point, a proper prefix first
RECURSIVE StrLess(_, _)
StrLess(s, t) ==
    IF t = <<>> THEN FALSE
    ELSE IF s = <<>> THEN TRUE
    ELSE IF Head(s) # Head(t) THEN Head(s) < Head(t)
    ELSE StrLess(Tail(s), Tail(t))

(***************************************************************************)
(* human_readable_byte_count_si.  The floats of the function are followed  *)
(* exactly: the magnitude a of n is kept as an integer together with the   *)
(* number p of divisions by 1000 applied to it, so the float held by the   *)
(* code is the double nearest a / 1000^p.                                  *)
(***************************************************************************)

\* the loop of lines 125-127: the number of divisions by 1000 made before
\* the value drops below 999950 (a / 1000^p >= 999950 compares exactly: the
\* quotient of an integer by 1000^p is either >= 999950 or at least
\* 1/1000^p below it, far more than a double's rounding)
RECURSIVE DivLoop(_, _)
DivLoop(a, p) ==
    IF a \div Pow1000(p) >= 999950 THEN DivLoop(a, p + 1) ELSE p

\* number of binary digits of a positive integer
RECURSIVE BitLen(_)
BitLen(i) == IF i < 2 THEN 1 ELSE 1 + BitLen(i \div 2)

\* remainder left after k more binary digits of the quotient r / 1000
RECURSIVE RemAfter(_, _)
RemAfter(r, k) == IF k = 0 THEN r ELSE RemAfter((2 * r) % 1000, k - 1)

\* m / 1000.0 for an integer 1000 <= m < 999950, compared with the exact
\* quotient: 1 when the double is above it, -1 when below, 0 when equal
\* (the 53-bit significand keeps 53 - BitLen(m \div 1000) fraction bits and
\* the rest is rounded to nearest)
FloatErrSign(m) ==
    LET r == RemAfter(m % 1000, 53 - BitLen(m \div 1000))
    IN  IF r = 0 THEN 0 ELSE IF 2 * r > 1000 THEN 1 ELSE IF 2 * r < 1000 THEN -1
        ELSE 0

\* "%.1f" % (x / 1000.0) where x is the double nearest a / 1000^p: the
\* number of tenths printed.  printf rounds the double's exact value, ties
\* to even; a / 1000^(p+1) lies on a tie only when a is a multiple of
\* 50 * 1000^p, and then every earlier quotient was an exact integer.
Tenths(a, p) ==
    LET D == 100 * Pow1000(p)
        q == a \div D
        r == a % D
    IN  IF 2 * r < D THEN q
        ELSE IF 2 * r > D THEN q + 1
        ELSE LET s == FloatErrSign(a \div Pow1000(p))
             IN  IF s > 0 THEN q + 1
                 ELSE IF s < 0 THEN q
                 ELSE IF q % 2 = 0 THEN q ELSE q + 1

\* the text of "%.1f" for a value of t tenths (negative: a leading "-")
Fmt1(neg, t) ==
    (IF neg THEN <<MINUS>> ELSE <<>>) \o Digits(t \div 10) \o <<DOT, ZERO + (t % 10)>>

\* lines 119-129.  prefixes[p] raises IndexError past "E" (p > 5): no text
\* is returned, which the empty sequence stands for (no size formats to it).
human_readable_byte_count_si(n) ==
    IF -1000 < n /\ n < 1000
    THEN Str(n) \o <<SP, CH_B>>
    ELSE LET a == Abs(n)
             p == DivLoop(a, 0)
         IN  IF p + 1 > Len(prefixes) THEN <<>>
             ELSE Fmt1(n < 0, Tenths(a, p)) \o <<SP, prefixes[p + 1], CH_B>>

(***************************************************************************)
(* parse_human_readable_byte_count_si.  The model carries ten times the    *)
(* exact product, as an integer: the float returned is that product        *)
(* rounded to a double, which keeps the order and the equality of the      *)
(* products that the texts of two sizes give.                              *)
(***************************************************************************)

\* str.split(): the maximal runs of non-blank characters
RECURSIVE SplitFrom(_, _, _)
SplitFrom(s, cur, acc) ==
    IF s = <<>> THEN (IF cur = <<>> THEN acc ELSE Append(acc, cur))
    ELSE IF Head(s) = SP
         THEN SplitFrom(Tail(s), <<>>, IF cur = <<>> THEN acc ELSE Append(acc, cur))
         ELSE SplitFrom(Tail(s), Append(cur, Head(s)), acc)

Split(s) == SplitFrom(s, <<>>, <<>>)

\* the value of a run of decimal digits
RECURSIVE DigitsValue(_)
DigitsValue(d) ==
    IF d = <<>> THEN 0 ELSE 10 * DigitsValue(SubSeq(d, 1, Len(d) - 1)) + (d[Len(d)] - ZERO)

\* 10 * float(text) for the texts "%.1f" and str(int) write
FloatTenths(t) ==
    LET neg == t # <<>> /\ Head(t) = MINUS
        u   == IF neg THEN Tail(t) ELSE t
        val == IF Len(u) >= 2 /\ u[Len(u) - 1] = DOT
               THEN 10 * DigitsValue(SubSeq(u, 1, Len(u) - 2)) + (u[Len(u)] - ZERO)
               ELSE 10 * DigitsValue(u)
    IN  IF neg THEN -val ELSE val

\* "BkMGTPE".index(c), counted from 0
PrefixIndex_First(c) == 0

PrefixIndex(c) == CHOOSE i \in 0..(Len(parse_prefixes) - 1) : parse_prefixes[i + 1] = c

\* lines 131-134, in tenths of a byte
parse_human_readable_byte_count_si(n) ==
    LET parts  == Split(n)
        number == parts[1]
        units  == parts[2]
    IN  FloatTenths(number) * Pow1000(PrefixIndex(units[1]))

(***************************************************************************)
(* The two functions on integers of any size.  The operators above follow  *)
(* the code for the sizes the application lists, inside 32 bits; here an   *)
(* integer is a sequence of binary digits, most significant first, and a   *)
(* float is a double: 53 binary digits sig and an exponent exp, of value   *)
(* sig * 2^exp (sig empty for 0.0), each operation rounded to nearest,     *)
(* ties to even, as IEEE 754 and Python's int / int do.                    *)
(***************************************************************************)

\* the binary digits of a natural number, and back
RECURSIVE NatBits(_)
NatBits(v) == IF v = 0 THEN <<>> ELSE Append(NatBits(v \div 2), v % 2)

RECURSIVE BitsNat(_)
BitsNat(b) == IF b = <<>> THEN 0 ELSE 2 * BitsNat(SubSeq(b, 1, Len(b) - 1)) + b[Len(b)]

Zeros(k) == [i \in 1..k |-> 0]

\* b without its leading zeros
Strip(b) ==
    IF \A i \in DOMAIN b : b[i] = 0 THEN <<>>
    ELSE SubSeq(b, CHOOSE i \in DOMAIN b : b[i] = 1 /\ \A j \in 1..(i - 1) : b[j] = 0, Len(b))

\* c * b + low for a small c: the digits of the same length and the carry
\* out of the top (the lower half first, its carry into the upper half; the
\* test on the carry has the lower half computed before the upper is entered)
RECURSIVE MulFrac(_, _, _)
MulFrac(b, c, low) ==
    IF b = <<>> THEN [carry |-> low, bits |-> <<>>]
    ELSE IF Len(b) = 1
    THEN [carry |-> (c * b[1] + low) \div 2, bits |-> <<(c * b[1] + low) % 2>>]
    ELSE LET h  == Len(b) \div 2
             lo == MulFrac(SubSeq(b, h + 1, Len(b)), c, low)
             hi == MulFrac(SubSeq(b, 1, h), c, lo.carry)
         IN  IF lo.carry >= 0 THEN [carry |-> hi.carry, bits |-> hi.bits \o lo.bits]
             ELSE lo

\* c * b + add, as an integer
MulAdd(b, c, add) ==
    LET r == MulFrac(b, c, add) IN Strip(NatBits(r.carry) \o r.bits)

\* b - low for a small low: the digits of the same length and the borrow
\* out of the top
RECURSIVE SubFrac(_, _)
SubFrac(b, low) ==
    IF b = <<>> THEN [borrow |-> low, bits |-> <<>>]
    ELSE IF Len(b) = 1
    THEN [borrow |-> (((b[1] - low) % 2) - (b[1] - low)) \div 2, bits |-> <<(b[1] - low) % 2>>]
    ELSE LET h  == Len(b) \div 2
             lo == SubFrac(SubSeq(b, h + 1, Len(b)), low)
             hi == SubFrac(SubSeq(b, 1, h), lo.borrow)
         IN  IF lo.borrow >= 0 THEN [borrow |-> hi.borrow, bits |-> hi.bits \o lo.bits]
             ELSE lo

\* b - d for a small d <= b
SubSmall(b, d) == SubFrac(b, d).bits

RECURSIVE MulPow1000(_, _)
MulPow1000(b, k) == IF k = 0 \/ b = <<>> THEN b ELSE MulPow1000(MulAdd(b, 1000, 0), k - 1)

\* the magnitude of the integer m * 1000^k + d (m, k >= 0, d small)
IntBits(a) ==
    LET big == MulPow1000(NatBits(a.m), a.k)
    IN  IF a.d >= 0 THEN MulAdd(big, 1, a.d) ELSE Strip(SubSmall(big, -a.d))

\* a < b, a <= b for integers
BitsLess(a, b) ==
    LET x == Strip(a)
        y == Strip(b)
    IN  IF Len(x) # Len(y) THEN Len(x) < Len(y)
        ELSE \E i \in DOMAIN x : x[i] < y[i] /\ \A j \in 1..(i - 1) : x[j] = y[j]

BitsLeq(a, b) == ~BitsLess(b, a)

\* long division of the digits b by a small c, entered with remainder r:
\* the quotient digits and the remainder left (the upper half first)
RECURSIVE LongDiv(_, _, _)
LongDiv(b, c, r) ==
    IF b = <<>> THEN [q |-> <<>>, r |-> r]
    ELSE IF Len(b) = 1
    THEN [q |-> <<(2 * r + b[1]) \div c>>, r |-> (2 * r + b[1]) % c]
    ELSE LET h  == Len(b) \div 2
             hi == LongDiv(SubSeq(b, 1, h), c, r)
             lo == LongDiv(SubSeq(b, h + 1, Len(b)), c, hi.r)
         IN  IF hi.r >= 0 THEN [q |-> hi.q \o lo.q, r |-> lo.r] ELSE hi

\* the double nearest the integer q * 2^e plus, when sticky, a fraction of
\* its last digit
Round53(q, sticky, e) ==
    LET s == Strip(q)
    IN  IF s = <<>> THEN [sig |-> <<>>, exp |-> 0]
        ELSE IF Len(s) <= 53
        THEN [sig |-> s \o Zeros(53 - Len(s)), exp |-> e - (53 - Len(s))]
        ELSE LET top  == SubSeq(s, 1, 53)
                 rest == SubSeq(s, 55, Len(s))
                 st   == sticky \/ (\E i \in DOMAIN rest : rest[i] = 1)
                 up   == s[54] = 1 /\ (st \/ top[53] = 1)
                 inc  == MulFrac(top, 1, 1)
                 ex   == e + (Len(s) - 53)
             IN  IF ~up THEN [sig |-> top, exp |-> ex]
                 ELSE IF inc.carry = 1 THEN [sig |-> <<1>> \o Zeros(52), exp |-> ex + 1]
                 ELSE [sig |-> inc.bits, exp |-> ex]

\* x / c for a small integer c, where x is an int (exp 0) or a double
FloatDiv(x, c) ==
    LET pad == IF Len(x.sig) < 64 THEN 64 - Len(x.sig) ELSE 0
        res == LongDiv(x.sig \o Zeros(pad), c, 0)
    IN  Round53(res.q, res.r # 0, x.exp - pad)

\* x * 1000^i for a double x (1000^i is a double exactly, i <= 6)
FloatMulPow1000(x, i) == Round53(MulPow1000(x.sig, i), FALSE, x.exp)

\* the digits of floor(x), x an int or a double
FloorBits(x) ==
    IF x.exp >= 0 THEN x.sig \o Zeros(x.exp)
    ELSE SubSeq(x.sig, 1, Len(x.sig) + x.exp)

\* x >= 999950 (the condition of line 125, on the magnitude)
AtLeast999950_Million(x) ==
    LET f == FloorBits(x)
    IN  IF Len(f) >= 31 THEN TRUE ELSE BitsNat(f) >= 1000000

AtLeast999950(x) ==
    LET f == FloorBits(x)
    IN  IF Len(f) >= 31 THEN TRUE ELSE BitsNat(f) >= 999950

\* lines 124-127 on the magnitude x: the value left and the divisions made
RECURSIVE WhileLoop(_, _)
WhileLoop(x, p) ==
    IF AtLeast999950(x) THEN WhileLoop(FloatDiv(x, 1000), p + 1) ELSE [n |-> x, p |-> p]

\* "%.1f" of a double y >= 0: the tenths printed, the exact value of y
\* rounded to one decimal, ties to even
TenthsOf(y) ==
    LET ip    == Len(y.sig) + y.exp
        whole == IF ip <= 0 THEN 0 ELSE BitsNat(SubSeq(y.sig, 1, ip))
        frac  == IF ip <= 0 THEN Zeros(-ip) \o y.sig ELSE SubSeq(y.sig, ip + 1, Len(y.sig))
        t     == MulFrac(frac, 10, 0)
        low   == 10 * whole + t.carry
        half  == t.bits # <<>> /\ t.bits[1] = 1
        more  == \E i \in DOMAIN t.bits : i > 1 /\ t.bits[i] = 1
    IN  IF half /\ (more \/ low % 2 = 1) THEN low + 1 ELSE low

\* line 120 on the magnitude: -1000 < n and n < 1000
IsBytes_Below100(mag) == Len(mag) <= 10 /\ BitsNat(mag) < 100

IsBytes(mag) == Len(mag) <= 10 /\ BitsNat(mag) < 1000

\* lines 119-129 for the integer a (sign a.neg, magnitude IntBits(a)): the
\* text returned, or raised with the exception's name as the text
\* ("IndexError": prefixes[p] with p > 5, line 129)
FormatInt(a) ==
    LET mag == IntBits(a)
    IN  IF IsBytes(mag)
        THEN [raised |-> FALSE,
              text |-> (IF a.neg /\ mag # <<>> THEN <<MINUS>> ELSE <<>>)
                       \o Digits(BitsNat(mag)) \o <<SP, CH_B>>]
        ELSE LET w == WhileLoop([sig |-> mag, exp |-> 0], 0)
                 t == TenthsOf(FloatDiv(w.n, 1000))
             IN  IF w.p + 1 > Len(prefixes)
                 THEN [raised |-> TRUE, text |-> "IndexError"]
                 ELSE [raised |-> FALSE,
                       text |-> Fmt1(a.neg, t) \o <<SP, prefixes[w.p + 1], CH_B>>]

\* lines 131-134 as a double: float(number) * pow(1000, index)
ParseFloat(s) ==
    LET parts  == Split(s)
        number == parts[1]
        units  == parts[2]
        neg    == Head(number) = MINUS
        t      == Abs(FloatTenths(number))
        f      == IF Len(number) >= 2 /\ number[Len(number) - 1] = DOT
                  THEN FloatDiv([sig |-> NatBits(t), exp |-> 0], 10)
                  ELSE Round53(NatBits(t \div 10), FALSE, 0)
        v      == FloatMulPow1000(f, PrefixIndex(units[1]))
    IN  [sig |-> v.sig, exp |-> v.exp, neg |-> neg /\ v.sig # <<>>]

(***************************************************************************)
(* The file system the scans read.  A scan of a directory returns, in the  *)
(* order of the enumeration, some of the files below (no name twice), or   *)
(* fails.  Names are str, st_size is a byte count, st_mtime a time stamp.  *)
(***************************************************************************)
None == "None"
NoKey == <<>>

Dirs == {"/home", "/tmp"}

\* "b" of 999950 bytes, "a" of 999949 bytes, "B" of 999999 bytes: the sizes
\* read "1.0 MB", "999.9 kB" and "1.0 MB"
Files == {
    [name |-> <<98>>, st_size |-> 999950, st_mtime |-> 2],
    [name |-> <<97>>, st_size |-> 999949, st_mtime |-> 1],
    [name |-> <<66>>, st_size |-> 999999, st_mtime |-> 1] }

\* os.DirEntry: the file and the path it was found under
DirEntry(dir, f) ==
    [name |-> f.name, path |-> <<dir, f.name>>, st_size |-> f.st_size, st_mtime |-> f.st_mtime]

\* what list(os.scandir(path)) can return
Listings(dir) ==
    { l \in UNION { [1..n -> {DirEntry(dir, f) : f \in Files}] : n \in 0..MaxEntries } :
        \A i, j \in DOMAIN l : i # j => l[i].name # l[j].name }

\* the outcome of lines 100-101: scandir raises, a child's stat() raises, or
\* every child is listed and read
ScanOutcomes(dir) ==
    { [raised |-> "OSError: scandir", listing |-> <<>>],
      [raised |-> "OSError: stat", listing |-> <<>>] }
    \cup { [raised |-> "", listing |-> l] : l \in Listings(dir) }

(***************************************************************************)
(* State.                                                                  *)
(***************************************************************************)
VARIABLES
    path,           \* FileBrowser.path (reactive), None before the first selection
    sort_column,    \* FileBrowser.sort_column: the str "Name", then a column key
    sort_reverse,   \* FileBrowser.sort_reverse
    data_by_key,    \* FileBrowser.data_by_key: row key -> DirEntry
    selected_row,   \* FileBrowser.selected_row: a row key or NoKey (Python None)
    table_data,     \* DataTable._data: the rows in insertion order, [key, cells]
    row_locations,  \* DataTable._row_locations: the row keys in displayed order
    log,            \* the lines written to the Log widget
    opened,         \* the paths os.startfile was called with
    raised,         \* the exception that escaped a handler, "" while none did
    scans,          \* number of runs of watch_path's try block
    event,          \* the event handled last: its name, its argument, and what
                    \* the scan it ran met ("" when it ran none)
    fn_pc,          \* the two size functions called on their own: "idle" in the
                    \* application, else "call", "formatted", "parsed", "compared"
    fn_arg,         \* the integer passed to human_readable_byte_count_si
    fn_text,        \* the text it returned (its exception, while fn_raised)
    fn_raised,      \* whether the call raised
    fn_back,        \* the float parse_human_readable_byte_count_si returned
    fn_other,       \* a second integer, whose Size cell a sort compares with
    fn_other_back   \* the sort key of the second integer's cell

app_vars == <<path, sort_column, sort_reverse, data_by_key, selected_row, table_data,
              row_locations, log, opened, raised, scans, event>>

fn_vars == <<fn_pc, fn_arg, fn_text, fn_raised, fn_back, fn_other, fn_other_back>>

vars == <<path, sort_column, sort_reverse, data_by_key, selected_row, table_data,
          row_locations, log, opened, raised, scans, event,
          fn_pc, fn_arg, fn_text, fn_raised, fn_back,
          fn_other, fn_other_back>>

\* column_names (line 34), as code points: "Name", "Size", "Modified"
column_names == << <<78, 97, 109, 101>>, <<83, 105, 122, 101>>,
                   <<77, 111, 100, 105, 102, 105, 101, 100>> >>

\* the keys DataTable.add_columns (line 60) gives the three columns, by
\* column index; a key made without a name equals no str, so none of them
\* equals the initial sort_column
ColumnKey(i) == <<"ColumnKey", i>>
ColumnKeys == { ColumnKey(i) : i \in 0..(Len(column_names) - 1) }
ColumnIndex(k) == CHOOSE i \in 0..(Len(column_names) - 1) : ColumnKey(i) = k

\* column_names.index("Size") (line 88)
SizeIndex == CHOOSE i \in 0..(Len(column_names) - 1) : column_names[i + 1] = <<83, 105, 122, 101>>

\* sort_column = "Name" (line 35): a str, not a column key
StrName == <<"str", 0>>

EmptyMap == [k \in {} |-> 0]

RowKeys == { table_data[i].key : i \in DOMAIN table_data }

\* the rows as the table shows them, top to bottom
DisplayedRows ==
    [i \in DOMAIN row_locations |->
        table_data[CHOOSE j \in DOMAIN table_data : table_data[j].key = row_locations[i]]]

\* the application after on_mount
AppInit ==
    /\ path = None
    /\ sort_column = StrName
    /\ sort_reverse = FALSE
    /\ data_by_key = EmptyMap
    /\ selected_row = NoKey
    /\ table_data = <<>>
    /\ row_locations = <<>>
    /\ log = <<>>
    /\ opened = <<>>
    /\ raised = ""
    /\ scans = 0
    /\ event = [name |-> "mount", arg |-> "", scan |-> ""]

\* no call of the size functions on their own
FnIdle ==
    /\ fn_pc = "idle"
    /\ fn_arg = [neg |-> FALSE, m |-> 0, k |-> 0, d |-> 0]
    /\ fn_text = <<>>
    /\ fn_raised = FALSE
    /\ fn_back = [sig |-> <<>>, exp |-> 0, neg |-> FALSE]
    /\ fn_other = [neg |-> FALSE, m |-> 0, k |-> 0, d |-> 0]
    /\ fn_other_back = [sig |-> <<>>, exp |-> 0, neg |-> FALSE]

Init == AppInit /\ FnIdle

(***************************************************************************)
(* on_data_table_row_selected (lines 67-68).  The table reports the key of *)
(* one of its rows.                                                        *)
(***************************************************************************)
RowSelected(k) ==
    /\ raised = ""
    /\ k \in RowKeys
    /\ selected_row' = k
    /\ event' = [name |-> "RowSelected", arg |-> "", scan |-> ""]
    /\ UNCHANGED <<path, sort_column, sort_reverse, data_by_key, table_data,
                   row_locations, log, opened, raised, scans>>
    /\ UNCHANGED fn_vars

(***************************************************************************)
(* _on_click (lines 70-72).  FileBrowser has no attribute data_by_row:     *)
(* evaluating self.data_by_row raises AttributeError before the mapping is *)
(* indexed and before os.startfile is called.  An exception that escapes a *)
(* handler ends the application.                                           *)
(***************************************************************************)
AppAttributes == {"column_names", "sort_column", "sort_reverse", "show_tree",
                  "data_by_key", "selected_row", "path"}

\* ClickActivates without the test of selected_row
ClickActivates_NoNoneTest(widget, chain) ==
    widget = "DataTable" /\ chain = 2

\* the condition of line 71
ClickActivates(widget, chain) ==
    widget = "DataTable" /\ selected_row # NoKey /\ chain = 2

\* line 72: the exception raised, "" when os.startfile is reached
StartfileRaises ==
    IF "data_by_row" \notin AppAttributes THEN "AttributeError"
    ELSE IF selected_row \notin DOMAIN data_by_key THEN "KeyError"
    ELSE ""

Click(widget, chain) ==
    /\ raised = ""
    /\ event' = [name |-> "Click",
                 arg |-> IF widget = "DataTable" /\ chain = 2 THEN "activate" ELSE "other",
                 scan |-> ""]
    /\ IF ClickActivates(widget, chain)
       THEN /\ raised' = StartfileRaises
            /\ opened' = IF StartfileRaises = ""
                         THEN Append(opened, data_by_key[selected_row].path)
                         ELSE opened
       ELSE UNCHANGED <<opened, raised>>
    /\ UNCHANGED <<path, sort_column, sort_reverse, data_by_key, selected_row,
                   table_data, row_locations, log, scans>>
    /\ UNCHANGED fn_vars

(***************************************************************************)
(* on_data_table_header_selected (lines 81-89).                            *)
(***************************************************************************)
\* NextSortState with the reset of sort_reverse on a new column left out
NextSortState_NoReset(column_key) ==
    IF sort_column = column_key
    THEN [column |-> sort_column, reverse |-> ~sort_reverse]
    ELSE [column |-> column_key, reverse |-> sort_reverse]

\* lines 82-86: the new (sort_column, sort_reverse)
NextSortState(column_key) ==
    IF sort_column = column_key
    THEN [column |-> sort_column, reverse |-> ~sort_reverse]
    ELSE [column |-> column_key, reverse |-> FALSE]

\* KeyIsParse when every column is sorted with the identity key
KeyIsParse_Never(column_index) == FALSE

\* line 88: whether the sort key is parse_human_readable_byte_count_si
KeyIsParse(column_index) == column_index = SizeIndex

\* the order of two cells of column ci under the sort key: parsed sizes as
\* numbers, the identity key by the cell's own order (str for Name and
\* Size, datetime for Modified)
CellLess(ci, parsed, x, y) ==
    IF parsed
    THEN parse_human_readable_byte_count_si(x) < parse_human_readable_byte_count_si(y)
    ELSE IF ci = 2 THEN x < y
    ELSE StrLess(x, y)

\* Insert when a row is put above the rows whose key equals its own
RECURSIVE Insert_BeforeEqual(_, _, _, _, _)
Insert_BeforeEqual(done, row, ci, parsed, reverse) ==
    IF done = <<>> THEN <<row>>
    ELSE LET h == Head(done)
             before == IF reverse
                       THEN ~CellLess(ci, parsed, row.cells[ci + 1], h.cells[ci + 1])
                       ELSE ~CellLess(ci, parsed, h.cells[ci + 1], row.cells[ci + 1])
         IN  IF before THEN <<row>> \o done
             ELSE <<h>> \o Insert_BeforeEqual(Tail(done), row, ci, parsed, reverse)

\* sorted(rows, key, reverse): stable, and with reverse the descending
\* order in which equal keys still keep their original order
RECURSIVE Insert(_, _, _, _, _)
Insert(done, row, ci, parsed, reverse) ==
    IF done = <<>> THEN <<row>>
    ELSE LET h == Head(done)
             before == IF reverse
                       THEN CellLess(ci, parsed, h.cells[ci + 1], row.cells[ci + 1])
                       ELSE CellLess(ci, parsed, row.cells[ci + 1], h.cells[ci + 1])
         IN  IF before THEN <<row>> \o done
             ELSE <<h>> \o Insert(Tail(done), row, ci, parsed, reverse)

RECURSIVE Sorted(_, _, _, _)
Sorted(rows, ci, parsed, reverse) ==
    IF rows = <<>> THEN <<>>
    ELSE Insert(Sorted(SubSeq(rows, 1, Len(rows) - 1), ci, parsed, reverse),
                rows[Len(rows)], ci, parsed, reverse)

\* DataTable.sort (lines 87-89): the rows of _data, in insertion order, are
\* sorted on the cell of the sort column and the result is the new display
\* order
TableSort(column_key, parsed, reverse) ==
    LET ordered == Sorted(table_data, ColumnIndex(column_key), parsed, reverse)
    IN  [i \in DOMAIN ordered |-> ordered[i].key]

\* HeaderSelected when sorting also drops the selection
HeaderSelected_ClearsSelection(column_index) ==
    /\ raised = ""
    /\ LET column_key == ColumnKey(column_index)
           next == NextSortState(column_key)
       IN  /\ sort_column' = next.column
           /\ sort_reverse' = next.reverse
           /\ row_locations' = TableSort(next.column, KeyIsParse(column_index), next.reverse)
    /\ event' = [name |-> "HeaderSelected", arg |-> "", scan |-> ""]
    /\ selected_row' = NoKey
    /\ UNCHANGED <<path, data_by_key, table_data, log, opened, raised, scans>>
    /\ UNCHANGED fn_vars

HeaderSelected(column_index) ==
    /\ raised = ""
    /\ LET column_key == ColumnKey(column_index)
           next == NextSortState(column_key)
       IN  /\ sort_column' = next.column
           /\ sort_reverse' = next.reverse
           /\ row_locations' = TableSort(next.column, KeyIsParse(column_index), next.reverse)
    /\ event' = [name |-> "HeaderSelected", arg |-> "", scan |-> ""]
    /\ UNCHANGED <<path, data_by_key, selected_row, table_data, log, opened,
                   raised, scans>>
    /\ UNCHANGED fn_vars

(***************************************************************************)
(* watch_path (lines 91-107).                                              *)
(***************************************************************************)
\* the cells of one row (line 101)
RowCells(item) ==
    <<item.name, human_readable_byte_count_si(item.st_size), item.st_mtime>>

\* NewRowKeys when a row's key is its index in the listing
NewRowKeys_ByIndex(n) == [i \in 1..n |-> <<1, i>>]

\* the keys DataTable.add_rows returns (line 101): n key objects that did
\* not exist before, here numbered by the scan that made them
NewRowKeys(n) == [i \in 1..n |-> <<scans + 1, i>>]

\* every key made by the scans so far
IssuedKeys == { <<s, i>> : s \in 1..scans, i \in 1..MaxEntries }

\* str(e) of the exception the try block raises on outcome o, "" if none:
\* scandir's or stat's error, or the IndexError of a size past the "E" prefix
TryRaises(o) ==
    IF o.raised # "" THEN o.raised
    ELSE IF \E i \in DOMAIN o.listing : RowCells(o.listing[i]) [2] = <<>>
         THEN "IndexError: string index out of range"
         ELSE ""

\* RowsAfterRaise when clear() is called after the directory was read
RowsAfterRaise_NotCleared == table_data

\* what a run of watch_path on p met: no scan, an exception, a directory
\* without children, or children
ScanKind(p, o) ==
    IF p = None THEN ""
    ELSE IF TryRaises(o) # "" THEN "raised"
    ELSE IF o.listing = <<>> THEN "empty"
    ELSE "listed"

\* the rows of the table when the try block raised: clear() (line 98) ran
\* before anything that can raise, and add_rows (line 101) was not reached
RowsAfterRaise == <<>>

\* the log after the except clause (lines 105-107)
LogAfterRaise(msg) == Append(log, msg)

WatchPath(p, o) ==
    IF p = None
    THEN UNCHANGED <<data_by_key, table_data, row_locations, log, scans>>
    ELSE /\ scans < MaxScans
         /\ scans' = scans + 1
         /\ IF TryRaises(o) # ""
            THEN /\ table_data' = RowsAfterRaise
                 /\ row_locations' = [i \in DOMAIN RowsAfterRaise |-> RowsAfterRaise[i].key]
                 /\ data_by_key' = EmptyMap
                 /\ log' = LogAfterRaise(TryRaises(o))
            ELSE LET data_values == o.listing
                     data_keys == NewRowKeys(Len(data_values))
                 IN  /\ table_data' = [i \in DOMAIN data_values |->
                                          [key |-> data_keys[i], cells |-> RowCells(data_values[i])]]
                     /\ row_locations' = data_keys
                     /\ data_by_key' =
                           [k \in {data_keys[i] : i \in DOMAIN data_keys} |->
                               data_values[CHOOSE i \in DOMAIN data_keys : data_keys[i] = k]]
                     /\ log' = log

(***************************************************************************)
(* on_directory_tree_directory_selected (lines 74-79).  path is a reactive *)
(* attribute declared without always_update: assigning it runs watch_path  *)
(* only when the new value differs from the old one.                       *)
(***************************************************************************)
\* WatcherRuns for a reactive declared with always_update
WatcherRuns_Always(old, new) == TRUE

WatcherRuns(old, new) == old # new

\* DirectorySelected when a new directory starts in ascending order
DirectorySelected_ResetsReverse(p, o) ==
    /\ raised = ""
    /\ path' = p
    /\ event' = [name |-> "DirectorySelected",
                 arg |-> IF path = p THEN "same" ELSE "changed",
                 scan |-> IF WatcherRuns(path, p) THEN ScanKind(p, o) ELSE ""]
    /\ IF WatcherRuns(path, p)
       THEN WatchPath(p, o) /\ sort_reverse' = FALSE
       ELSE UNCHANGED <<data_by_key, table_data, row_locations, log, scans, sort_reverse>>
    /\ UNCHANGED <<sort_column, selected_row, opened, raised>>
    /\ UNCHANGED fn_vars

DirectorySelected(p, o) ==
    /\ raised = ""
    /\ path' = p
    /\ event' = [name |-> "DirectorySelected",
                 arg |-> IF path = p THEN "same" ELSE "changed",
                 scan |-> IF WatcherRuns(path, p) THEN ScanKind(p, o) ELSE ""]
    /\ IF WatcherRuns(path, p)
       THEN WatchPath(p, o)
       ELSE UNCHANGED <<data_by_key, table_data, row_locations, log, scans>>
    /\ UNCHANGED <<sort_column, sort_reverse, selected_row, opened, raised>>
    /\ UNCHANGED fn_vars

(***************************************************************************)
(* theme_change (lines 61-65): a change of theme calls watch_path with the *)
(* current path.                                                           *)
(***************************************************************************)
ThemeChanged(o) ==
    /\ raised = ""
    /\ event' = [name |-> "ThemeChanged", arg |-> "", scan |-> ScanKind(path, o)]
    /\ WatchPath(path, o)
    /\ UNCHANGED <<path, sort_column, sort_reverse, selected_row, opened, raised>>
    /\ UNCHANGED fn_vars

Next ==
    \/ \E k \in RowKeys : RowSelected(k)
    \/ \E widget \in {"DataTable", "Other"}, chain \in {1, 2} : Click(widget, chain)
    \/ \E column_index \in 0..(Len(column_names) - 1) : HeaderSelected(column_index)
    \/ \E p \in Dirs : \E o \in ScanOutcomes(p) : DirectorySelected(p, o)
    \/ \E o \in (IF path = None THEN {[raised |-> "", listing |-> <<>>]} ELSE ScanOutcomes(path)) :
          ThemeChanged(o)

Spec == Init /\ [][Next]_vars

(***************************************************************************)
(* The two size functions called on their own, on integers of any size.    *)
(* An input is the integer +-(m * 1000^k + d): the values 0..MaxSmall, and *)
(* the values around the prefix thresholds and around each power of 1000.  *)
(***************************************************************************)
Mantissas == {1, 1000, 1049, 1050, 1234, 4100, 8300, 999949, 999950, 999951}
Offsets == {-64000, -63, -62, -1, 0, 1, 50}

\* m * 1000^k + d >= 0 (beyond k = 1 every m * 1000^k passes every offset)
InRange(a) == a.d >= 0 \/ a.k >= 2 \/ a.m * Pow1000(a.k) + a.d >= 0

SmallInputs == {[neg |-> s, m |-> v, k |-> 0, d |-> 0] : s \in BOOLEAN, v \in 0..MaxSmall}

BigInputs ==
    {a \in [neg : BOOLEAN, m : Mantissas, k : 0..MaxPow, d : Offsets] : InRange(a)}

Inputs == SmallInputs \cup BigInputs

\* the integers a sort compares the others with: each threshold and the
\* integer before it, on both sides of zero
Pivots ==
    {a \in BigInputs : a.m \in {1000, 999950} /\ a.d \in {-1, 0}}

FnInit ==
    /\ AppInit
    /\ fn_pc = "call"
    /\ fn_arg \in Inputs
    /\ fn_text = <<>>
    /\ fn_raised = FALSE
    /\ fn_back = [sig |-> <<>>, exp |-> 0, neg |-> FALSE]
    /\ fn_other = fn_arg
    /\ fn_other_back = [sig |-> <<>>, exp |-> 0, neg |-> FALSE]

\* human_readable_byte_count_si(fn_arg), lines 119-129
Format ==
    /\ fn_pc = "call"
    /\ fn_pc' = "formatted"
    /\ LET f == FormatInt(fn_arg)
       IN  fn_text' = f.text /\ fn_raised' = f.raised
    /\ UNCHANGED <<fn_arg, fn_back, fn_other, fn_other_back>>
    /\ UNCHANGED app_vars

\* parse_human_readable_byte_count_si of the text returned, lines 131-134
Parse ==
    /\ fn_pc = "formatted"
    /\ ~fn_raised
    /\ fn_pc' = "parsed"
    /\ fn_back' = ParseFloat(fn_text)
    /\ UNCHANGED <<fn_arg, fn_text, fn_raised, fn_other, fn_other_back>>
    /\ UNCHANGED app_vars

\* the Size cell line 102 makes for each of these integers, and the key of
\* line 87 for the cell: parse_human_readable_byte_count_si of the text
\* human_readable_byte_count_si returned
PivotCells == {[arg |-> b, cell |-> FormatInt(b)] : b \in Pivots}

PivotKeys ==
    {[arg |-> c.arg, key |-> ParseFloat(c.cell.text)] : c \in {t \in PivotCells : ~t.cell.raised}}

\* a sort compares the key of fn_arg's cell with the key of another cell
Compare(other) ==
    /\ fn_pc = "parsed"
    /\ fn_pc' = "compared"
    /\ fn_other' = other.arg
    /\ fn_other_back' = other.key
    /\ UNCHANGED <<fn_arg, fn_text, fn_raised, fn_back>>
    /\ UNCHANGED app_vars

FnNext ==
    \/ Format
    \/ Parse
    \/ \E other \in PivotKeys : Compare(other)

FnSpec == FnInit /\ [][FnNext]_vars

(***************************************************************************)
(* Properties.                                                             *)
(***************************************************************************)
Columns == 0..(Len(column_names) - 1)

\* C1: a header click on the active sort column flips sort_reverse and
\* keeps the column; a click on another column makes it the active column
\* with sort_reverse false.  In both cases the clicked column is the active
\* one afterwards, so a second click on it flips the direction.
C1_HeaderToggle ==
    [][\A ci \in Columns : HeaderSelected(ci) =>
          /\ sort_column' = ColumnKey(ci)
          /\ IF sort_column = ColumnKey(ci)
             THEN sort_reverse' = ~sort_reverse /\ sort_column' = sort_column
             ELSE sort_reverse' = FALSE]_vars

\* a header was clicked a second time: the direction is descending
C1_Witness ==
    event.name = "HeaderSelected" /\ sort_column \in ColumnKeys /\ sort_reverse

\* C2: a double click on the table while the selected key is a key of the
\* current rows calls os.startfile once, with the path of the entry stored
\* under that key.
C2_ActivateOpens ==
    [][(Click("DataTable", 2) /\ selected_row \in RowKeys) =>
          opened' = Append(opened, data_by_key[selected_row].path)]_vars

\* C3: a double click on the table while the selected key is not a key of
\* the current rows (the rows were replaced after the selection) opens
\* nothing and raises nothing.
C3_StaleKeyNoop ==
    [][(Click("DataTable", 2) /\ selected_row # NoKey /\ selected_row \notin RowKeys) =>
          (opened' = opened /\ raised' = "")]_vars

\* C4: while no row was ever selected (selected_row is still None) a click,
\* the double click on the table included, opens nothing, raises nothing
\* and changes no field of the application or of the table.
C4_NoSelectionNoop ==
    [][\A widget \in {"DataTable", "Other"}, chain \in {1, 2} :
          (selected_row = NoKey /\ Click(widget, chain)) =>
             UNCHANGED <<path, sort_column, sort_reverse, data_by_key, selected_row,
                         table_data, row_locations, log, opened, raised, scans>>]_vars

\* the table has rows, nothing is selected, and it was double clicked
C4_Witness ==
    /\ event = [name |-> "Click", arg |-> "activate", scan |-> ""]
    /\ selected_row = NoKey
    /\ table_data # <<>>
    /\ opened = <<>>
    /\ raised = ""

\* C5: when watch_path's scan raises, the table ends with no rows, the
\* mapping is empty and one line was added to the log; when the directory
\* is read and has no children, the table ends with no rows and the log is
\* unchanged; no exception escapes the handler.
C5_ScanFailure ==
    [][scans' # scans =>
          /\ raised' = ""
          /\ event'.scan = "raised" =>
                /\ table_data' = <<>> /\ row_locations' = <<>>
                /\ DOMAIN data_by_key' = {}
                /\ Len(log') = Len(log) + 1
          /\ event'.scan = "empty" =>
                /\ table_data' = <<>> /\ row_locations' = <<>>
                /\ log' = log]_vars

\* a scan that listed rows was followed by a scan that failed
C5_Witness ==
    /\ scans = 2 /\ Len(log) = 1
    /\ selected_row # NoKey
    /\ table_data = <<>> /\ DOMAIN data_by_key = {}

\* the mapping and the table hold the same keys, and each row shows the
\* entry stored under its key
MapMatchesTable ==
    /\ DOMAIN data_by_key = RowKeys
    /\ RowKeys = { row_locations[i] : i \in DOMAIN row_locations }
    /\ Len(row_locations) = Len(table_data)
    /\ \A i \in DOMAIN table_data :
          table_data[i].cells = RowCells(data_by_key[table_data[i].key])

\* C6: in every state the keys of data_by_key are the keys of the table's
\* rows and each key maps to the entry its row was made from; no key made by
\* an earlier scan is a key of the mapping a later scan builds.
C6_MapAndRows ==
    /\ []MapMatchesTable
    /\ [][scans' # scans => DOMAIN data_by_key' \cap IssuedKeys = {}]_vars

\* a second scan has built rows
C6_Witness ==
    scans = 2 /\ Len(table_data) = 2 /\ log = <<>>

\* C7: the selected key is None or a key of the current rows.
C7_SelectionCurrent ==
    selected_row = NoKey \/ selected_row \in RowKeys

\* rows is ordered on column ci: by the parsed size on the Size column, by
\* the cell's own order (str, datetime) on the other columns; descending
\* when reverse
RowsOrdered(rows, ci, reverse) ==
    \A i, j \in DOMAIN rows : i < j =>
        LET x == IF reverse THEN rows[j].cells[ci + 1] ELSE rows[i].cells[ci + 1]
            y == IF reverse THEN rows[i].cells[ci + 1] ELSE rows[j].cells[ci + 1]
        IN  IF ci = SizeIndex
            THEN parse_human_readable_byte_count_si(x) <= parse_human_readable_byte_count_si(y)
            ELSE IF ci = 2 THEN x <= y
            ELSE ~StrLess(y, x)

\* C8: after a directory selection whose scan succeeded, made once a header
\* had been clicked, the rows are shown in the order of the current sort
\* column and direction.
C8_SortReapplied ==
    [][(/\ event'.name = "DirectorySelected"
        /\ event'.scan \in {"empty", "listed"}
        /\ sort_column \in ColumnKeys)
        => RowsOrdered(DisplayedRows', ColumnIndex(sort_column'), sort_reverse')]_vars

\* C9 as stated: every directory selection runs a scan.
C9_AlwaysScans ==
    [][event'.name = "DirectorySelected" => scans' = scans + 1]_vars

\* C9 amended: a directory selection runs a scan when the selected path
\* differs from the current path (the table gets rows with new keys, or is
\* left empty with one more log line); a selection of the current path runs
\* no scan and changes neither table, mapping nor log, also after a failed
\* scan.
C9_ScansOnChange ==
    [][event'.name = "DirectorySelected" =>
          IF path' # path
          THEN /\ scans' = scans + 1
               /\ RowKeys' \cap RowKeys = {}
               /\ \/ log' = log /\ event'.scan \in {"empty", "listed"}
                  \/ Len(log') = Len(log) + 1 /\ table_data' = <<>>
          ELSE UNCHANGED <<data_by_key, table_data, row_locations, log, scans>>]_vars

\* the directory whose scan failed was selected again: nothing was retried
C9_Witness ==
    /\ event = [name |-> "DirectorySelected", arg |-> "same", scan |-> ""]
    /\ scans = 1 /\ Len(log) = 1 /\ table_data = <<>>

\* the size texts "999.9 kB" and "1.0 MB"
Text999_9kB == <<57, 57, 57, 46, 57, 32, 107, 66>>
Text1_0MB == <<49, 46, 48, 32, 77, 66>>

\* C10: after a header click the rows are shown ordered on the clicked
\* column, by the parsed byte value on Size and by the cell value itself on
\* Name and Modified; so a row reading "999.9 kB" is above one reading
\* "1.0 MB" exactly when the direction is ascending.
C10_SortKeys ==
    [][\A ci \in Columns : HeaderSelected(ci) =>
          /\ RowsOrdered(DisplayedRows', ci, sort_reverse')
          /\ ci = SizeIndex =>
                \A i, j \in DOMAIN row_locations' :
                    (DisplayedRows'[i].cells[2] = Text999_9kB /\ DisplayedRows'[j].cells[2] = Text1_0MB)
                        => (i < j <=> ~sort_reverse')]_vars

\* the listing had the 999950-byte file first; sorted on Size, ascending,
\* the 999949-byte file is shown first
C10_Witness ==
    /\ event.name = "HeaderSelected"
    /\ sort_column = ColumnKey(SizeIndex) /\ ~sort_reverse
    /\ Len(table_data) = 2
    /\ table_data[1].cells[2] = Text1_0MB
    /\ DisplayedRows[1].cells[2] = Text999_9kB
    /\ DisplayedRows[2].cells[2] = Text1_0MB

\* the sort keys of two cells of column ci are equal
KeyEqual(ci, x, y) ==
    IF ci = SizeIndex
    THEN parse_human_readable_byte_count_si(x) = parse_human_readable_byte_count_si(y)
    ELSE x = y

\* the place of the row with key k in the order of insertion
InsertionIndex(k) == CHOOSE i \in DOMAIN table_data : table_data[i].key = k

\* C11: the sort a header click applies is stable and idempotent: rows
\* whose sort keys are equal are shown in the order they had in the sorted
\* sequence (the order of insertion), in either direction, and sorting the
\* shown sequence again on the same column and direction returns it
\* unchanged.
C11_StableIdempotent ==
    [][\A ci \in Columns : HeaderSelected(ci) =>
          /\ \A i, j \in DOMAIN row_locations' :
                (i < j /\ KeyEqual(ci, DisplayedRows'[i].cells[ci + 1],
                                       DisplayedRows'[j].cells[ci + 1]))
                   => InsertionIndex(row_locations'[i]) < InsertionIndex(row_locations'[j])
          /\ Sorted(DisplayedRows', ci, KeyIsParse(ci), sort_reverse') = DisplayedRows']_vars

\* two rows reading "1.0 MB" were sorted on Size, descending, and are shown
\* in the order of insertion
C11_Witness ==
    /\ event.name = "HeaderSelected"
    /\ sort_column = ColumnKey(SizeIndex) /\ sort_reverse
    /\ Len(table_data) = 2
    /\ table_data[1].cells[2] = Text1_0MB /\ table_data[2].cells[2] = Text1_0MB
    /\ row_locations = <<table_data[1].key, table_data[2].key>>

\* C16: a directory selection leaves sort_column and sort_reverse as they
\* were, whether its scan succeeds, fails or does not run.
C16_SortStateKept ==
    [][event'.name = "DirectorySelected" => UNCHANGED <<sort_column, sort_reverse>>]_vars

\* a directory was scanned while the direction was descending
C16_Witness ==
    /\ event.name = "DirectorySelected" /\ event.scan = "listed"
    /\ sort_column \in ColumnKeys /\ sort_reverse

\* C18: a header click changes only the order in which the rows are shown
\* and the sort state: the rows, the mapping, the selected key, the path,
\* the log and the opened paths stay, and the shown keys are the same keys;
\* a row selection changes only selected_row.
C18_Frames ==
    [][/\ event'.name = "HeaderSelected" =>
             /\ UNCHANGED <<table_data, data_by_key, selected_row, path, log, opened,
                            raised, scans>>
             /\ Len(row_locations') = Len(row_locations)
             /\ { row_locations'[i] : i \in DOMAIN row_locations' } = RowKeys
       /\ event'.name = "RowSelected" =>
             UNCHANGED <<path, sort_column, sort_reverse, data_by_key, table_data,
                         row_locations, log, opened, raised, scans>>]_vars

\* a header click reordered two rows while one of them was selected
C18_Witness ==
    /\ event.name = "HeaderSelected"
    /\ selected_row \in RowKeys
    /\ Len(table_data) = 2
    /\ row_locations = <<table_data[2].key, table_data[1].key>>

\* C19: the session starts sorted on Name, ascending, and the first header
\* click follows the toggle rule from there: on Name it turns the direction
\* to descending, on Size or Modified it selects that column, ascending.
C19_InitialToggle ==
    /\ sort_column = StrName /\ ~sort_reverse
    /\ [][\A ci \in Columns : (sort_column = StrName /\ HeaderSelected(ci)) =>
             IF column_names[ci + 1] = <<78, 97, 109, 101>>
             THEN sort_reverse'
             ELSE sort_column' = ColumnKey(ci) /\ ~sort_reverse']_vars

(***************************************************************************)
(* Properties of the two size functions, under FnSpec.                     *)
(***************************************************************************)
\* the integer fn_arg stands for has a magnitude below 1000
ArgBelow1000 == BitsLess(IntBits(fn_arg), NatBits(1000))

\* the text is a run of decimal digits without a leading zero (or "0")
IsDecimal(d) ==
    /\ d # <<>>
    /\ \A i \in DOMAIN d : d[i] \in ZERO..(ZERO + 9)
    /\ Len(d) > 1 => d[1] # ZERO

\* C12: for every integer n with -1000 < n < 1000, zero and the negative
\* values included, human_readable_byte_count_si(n) returns the decimal text
\* of n followed by " B": a "-" exactly when n < 0, then the decimal digits
\* of |n|, a blank and "B", with no decimal point and no SI prefix.
C12_SmallIsBytes ==
    (fn_pc = "formatted" /\ ArgBelow1000) =>
        /\ ~fn_raised
        /\ LET n      == IF fn_arg.neg THEN -BitsNat(IntBits(fn_arg)) ELSE BitsNat(IntBits(fn_arg))
               signed == n < 0
               digits == SubSeq(fn_text, IF signed THEN 2 ELSE 1, Len(fn_text) - 2)
           IN  /\ Len(fn_text) >= 3
               /\ signed <=> fn_text[1] = MINUS
               /\ IsDecimal(digits)
               /\ DigitsValue(digits) = Abs(n)
               /\ SubSeq(fn_text, Len(fn_text) - 1, Len(fn_text)) = <<SP, CH_B>>

\* -999 was formatted, as "-999 B"
C12_Witness ==
    /\ fn_pc = "formatted"
    /\ fn_arg = [neg |-> TRUE, m |-> 999, k |-> 0, d |-> 0]
    /\ fn_text = <<MINUS, 57, 57, 57, SP, CH_B>>

\* the magnitude of fn_arg divided i times by 1000, each division rounded to
\* a double
RECURSIVE DividedTimes(_)
DividedTimes(i) ==
    IF i = 0 THEN [sig |-> IntBits(fn_arg), exp |-> 0] ELSE FloatDiv(DividedTimes(i - 1), 1000)

Below999950(x) == BitsLess(FloorBits(x), NatBits(999950))

\* the first number of divisions that leaves a value below 999950
ThresholdIndex ==
    CHOOSE i \in 0..(MaxPow + 2) :
        Below999950(DividedTimes(i)) /\ \A j \in 0..(i - 1) : ~Below999950(DividedTimes(j))

\* the same on the integer itself: the first i with |n| < 999950 * 1000^i
ExactIndex ==
    CHOOSE i \in 0..(MaxPow + 2) :
        /\ BitsLess(IntBits(fn_arg), MulPow1000(NatBits(999950), i))
        /\ \A j \in 0..(i - 1) : ~BitsLess(IntBits(fn_arg), MulPow1000(NatBits(999950), j))

\* the text "<digits>.<digit> <prefix>B", a leading "-" allowed: its tenths
\* (magnitude), its sign and its prefix; tenths -1 when the text is not of
\* this form
Mantissa(text) ==
    LET parts  == Split(text)
        number == parts[1]
        signed == number # <<>> /\ Head(number) = MINUS
        u      == IF signed THEN Tail(number) ELSE number
        whole  == SubSeq(u, 1, Len(u) - 2)
        ok     == /\ Len(parts) = 2
                  /\ text = number \o <<SP>> \o parts[2]
                  /\ Len(u) >= 3
                  /\ u[Len(u) - 1] = DOT
                  /\ u[Len(u)] \in ZERO..(ZERO + 9)
                  /\ IsDecimal(whole)
                  /\ Len(parts[2]) = 2
                  /\ parts[2][2] = CH_B
    IN  [tenths |-> IF ok THEN 10 * DigitsValue(whole) + (u[Len(u)] - ZERO) ELSE -1,
         signed |-> signed,
         prefix |-> IF ok THEN parts[2][1] ELSE 0]

\* C13: for every integer n with |n| >= 1000 that the divisions bring below
\* 999950 by the prefix E, human_readable_byte_count_si(n) is a mantissa with
\* one decimal, of magnitude from 1.0 to 999.9 (never 1000.0) and signed as
\* n, followed by the prefix of the number of divisions by 1000 that first
\* leaves a value below 999950; for the integers built around 1000^3 or a
\* lower power (all below 2^53) that is the first prefix with
\* |n| < 999950 * 1000^i.  format(1234) = "1.2 kB", format(999949) =
\* "999.9 kB", format(999950) = "1.0 MB".
C13_MantissaAndPrefix ==
    (fn_pc = "formatted" /\ ~ArgBelow1000 /\ ~fn_raised) =>
        LET mt == Mantissa(fn_text)
        IN  /\ mt.tenths >= 10
            /\ mt.tenths <= 9999
            /\ mt.signed = fn_arg.neg
            /\ ThresholdIndex + 1 \in DOMAIN prefixes
            /\ mt.prefix = prefixes[ThresholdIndex + 1]
            /\ fn_arg.k <= 3 => ExactIndex = ThresholdIndex
            /\ fn_arg = [neg |-> FALSE, m |-> 1234, k |-> 0, d |-> 0]
                   => fn_text = <<49, DOT, 50, SP, 107, CH_B>>
            /\ fn_arg = [neg |-> FALSE, m |-> 999949, k |-> 0, d |-> 0]
                   => fn_text = <<57, 57, 57, DOT, 57, SP, 107, CH_B>>
            /\ fn_arg = [neg |-> FALSE, m |-> 999950, k |-> 0, d |-> 0]
                   => fn_text = <<49, DOT, 48, SP, 77, CH_B>>

\* an integer of the E range was formatted, as "999.9 EB"
C13_Witness ==
    /\ fn_pc = "formatted"
    /\ ~fn_raised
    /\ ~fn_arg.neg
    /\ Mantissa(fn_text).prefix = prefixes[Len(prefixes)]
    /\ Mantissa(fn_text).tenths = 9999

\* the digits of floor(c * x) for a double x >= 0 and a small c, and whether
\* c * x is that integer
FloorTimes(x, c) == FloorBits([sig |-> MulAdd(x.sig, c, 0), exp |-> x.exp])

IsWhole(x) == x.exp >= 0 \/ \A i \in DOMAIN x.sig : i > Len(x.sig) + x.exp => x.sig[i] = 0

\* the double x is the integer of digits b
FloatIsInt(x, b) == IsWhole(x) /\ Strip(FloorBits(x)) = Strip(b)

\* |x - n| <= |n| / 10 for a double x >= 0 and the integer of digits n:
\* 9 n <= 10 x <= 11 n
WithinTenth(x, n) ==
    /\ BitsLeq(MulAdd(n, 9, 0), FloorTimes(x, 10))
    /\ \/ BitsLess(FloorTimes(x, 10), MulAdd(n, 11, 0))
       \/ FloatIsInt([sig |-> MulAdd(x.sig, 10, 0), exp |-> x.exp], MulAdd(n, 11, 0))

\* |n| is a whole number of tenths of the unit of the prefix of the text:
\* the tenths printed, times the unit, are 10 |n|
WholeTenths ==
    LET mt == Mantissa(fn_text)
    IN  /\ mt.tenths >= 0
        /\ MulPow1000(NatBits(mt.tenths), PrefixIndex(mt.prefix)) = MulAdd(IntBits(fn_arg), 10, 0)

\* C14: for every integer n with |n| >= 999950 up to the E range,
\* parse_human_readable_byte_count_si(human_readable_byte_count_si(n)) has
\* the sign of n and differs from n by at most one tenth of |n|, and is n
\* itself when n is a whole number of tenths of the unit of its prefix.
C14_RoundTrip ==
    (fn_pc = "parsed" /\ ~BitsLess(IntBits(fn_arg), NatBits(999950))) =>
        /\ fn_back.neg = fn_arg.neg
        /\ WithinTenth(fn_back, IntBits(fn_arg))
        /\ WholeTenths => FloatIsInt(fn_back, IntBits(fn_arg))

\* C15: human_readable_byte_count_si returns a text for every integer: when
\* the divisions by 1000 pass the last prefix, E, the text carries E.
C15_AlwaysText ==
    fn_pc = "formatted" =>
        /\ ~fn_raised
        /\ ThresholdIndex + 1 > Len(prefixes) => Mantissa(fn_text).prefix = prefixes[Len(prefixes)]

\* a <= b for two integers, and x <= y for two doubles, each with its sign
IntLeq(a, b) ==
    LET za == IntBits(a) = <<>>
        zb == IntBits(b) = <<>>
    IN  IF a.neg /\ ~za
        THEN (IF b.neg /\ ~zb THEN BitsLeq(IntBits(b), IntBits(a)) ELSE TRUE)
        ELSE (IF b.neg /\ ~zb THEN FALSE ELSE BitsLeq(IntBits(a), IntBits(b)))

MagLeq(x, y) ==
    IF x.sig = <<>> THEN TRUE
    ELSE IF y.sig = <<>> THEN FALSE
    ELSE IF x.exp # y.exp THEN x.exp < y.exp
    ELSE BitsLeq(x.sig, y.sig)

FloatLeq(x, y) ==
    IF x.neg
    THEN (IF y.neg THEN MagLeq(y, x) ELSE TRUE)
    ELSE (IF y.neg THEN FALSE ELSE MagLeq(x, y))

\* C17: formatting followed by parsing is monotone: for two integers a <= b
\* that human_readable_byte_count_si returns a text for, the float parsed
\* from the text of a is at most the float parsed from the text of b, so a
\* sort by the Size column never puts a larger file before a smaller one.
C17_Monotone ==
    fn_pc = "compared" =>
        /\ IntLeq(fn_arg, fn_other) => FloatLeq(fn_back, fn_other_back)
        /\ IntLeq(fn_other, fn_arg) => FloatLeq(fn_other_back, fn_back)

\* 999949 was compared with 999950: "999.9 kB" against "1.0 MB"
C17_Witness ==
    /\ fn_pc = "compared"
    /\ fn_arg = [neg |-> FALSE, m |-> 999949, k |-> 0, d |-> 0]
    /\ fn_other = [neg |-> FALSE, m |-> 999950, k |-> 0, d |-> 0]
    /\ fn_text = <<57, 57, 57, DOT, 57, SP, 107, CH_B>>
    /\ ~FloatLeq(fn_other_back, fn_back)
====
